---- MODULE Spec2Model ----
(***************************************************************************)
(* A model of the bson-transpilers tree walker: the shared CodeGenerator   *)
(* (visitChildren, visitFuncCallExpression, visitIdentifierExpression,      *)
(* visitGetAttributeExpression, executeJavascript, checkArguments), the     *)
(* Java emitters and the Python constructor visitors.                       *)
(*                                                                          *)
(* A visit is an operator from (node, path, walker state) to the walker     *)
(* state after it: the node type slots, the log of visits, the sandbox      *)
(* contexts, the emitted text (a sequence of tokens) and the error thrown.  *)
(***************************************************************************)
EXTENDS Integers, Sequences, FiniteSets, TLC

VARIABLES target, tree, expected, res, pc, runs, leaked, symbols, options

vars == <<target, tree, expected, res, pc, runs, leaked, symbols, options>>

\* ------------------------------------------------------------------ bounds

MaxSlots == 2      \* slots of a schema drawn for checkArguments
MaxArgs == 3       \* arguments of a call
MaxRuns == 2
\* The most children of a node handed to visitChildren on its own.
MaxChildren == 3
\* The most digits of an octal literal of the inputs.
MaxDigits == 2       \* translations run one after the other

\* The target languages.
Targets == {"java", "python"}

\* --------------------------------------------------------- JavaScript values

NULL == "null"             \* JavaScript null: the optional sentinel of a slot, the type chain's end
UNDEFINED == "undefined"   \* JavaScript undefined: a type slot never written

\* ---------------------------------------------------------------- the types

\* SYMBOL_TYPE: the callable kinds of a Type; VAR is falsy.
SYMBOL_TYPE == [VAR |-> "var", CONSTRUCTOR |-> "constructor", FUNC |-> "func"]

NoAttr == [a \in {} |-> ""]

Primitive(id) ==
    [id |-> id, callable |-> SYMBOL_TYPE.VAR, args |-> <<>>, type |-> NULL,
     attr |-> NoAttr, template |-> FALSE, argsTemplate |-> FALSE]

PrimitiveIds ==
    {"_string", "_integer", "_decimal", "_hex", "_octal", "_bool", "_null",
     "_undefined", "_object", "_array", "_regex", "_numeric"}

\* Types: the primitive Types, keyed by id. A Type is named "Types.<id>".
Types == [id \in PrimitiveIds |-> "Types." \o id]

TypeName(id) == "Types." \o id

Instance(id, attr) ==
    [id |-> id, callable |-> SYMBOL_TYPE.VAR, args |-> <<>>, type |-> NULL,
     attr |-> attr, template |-> FALSE, argsTemplate |-> FALSE]

Callable(id, kind, args, type, attr, argsTemplate) ==
    [id |-> id, callable |-> kind, args |-> args, type |-> type,
     attr |-> attr, template |-> FALSE, argsTemplate |-> argsTemplate]

\* The Types of the symbol table, by name: the primitives, the instance Types
\* (BsonClasses, JSClasses), the callable symbols (Symbols) and the attributes.
TypeTable ==
    ("Types._object" :> [Primitive("_object") EXCEPT !.template = TRUE])
    @@ [n \in {TypeName(id) : id \in PrimitiveIds} |->
        Primitive(CHOOSE id \in PrimitiveIds : TypeName(id) = n)]
    @@ ("BsonClasses.ObjectId" :> Instance("ObjectId", NoAttr))
    @@ ("BsonClasses.Binary" :> Instance("Binary", NoAttr))
    @@ ("BsonClasses.Code" :> Instance("Code", NoAttr))
    @@ ("BsonClasses.Long" :> Instance("Long", ("toString" :> "Long.toString")))
    @@ ("BsonClasses.Int32" :> Instance("Int32", NoAttr))
    @@ ("BsonClasses.MaxKey" :> Instance("MaxKey", NoAttr))
    @@ ("BsonClasses.Decimal128" :> Instance("Decimal128", NoAttr))
    @@ ("BsonClasses.Timestamp" :> Instance("Timestamp", NoAttr))
    @@ ("BsonClasses.RegExp" :> Instance("BSONRegExp", NoAttr))
    @@ ("JSClasses.Date" :> Instance("Date", NoAttr))
    @@ ("JSClasses.Regex" :> Instance("Regex", NoAttr))
    @@ ("Symbols.ObjectId" :>
          Callable("ObjectId", SYMBOL_TYPE.CONSTRUCTOR,
                   <<{NULL, "Types._string", "Types._numeric"}>>,
                   "BsonClasses.ObjectId", NoAttr, FALSE))
    @@ ("Symbols.Binary" :>
          Callable("Binary", SYMBOL_TYPE.CONSTRUCTOR,
                   <<{"Types._string", "Types._numeric", "Types._object"},
                     {"Types._numeric", NULL}>>,
                   "BsonClasses.Binary", NoAttr, FALSE))
    @@ ("Symbols.Code" :>
          Callable("Code", SYMBOL_TYPE.CONSTRUCTOR,
                   <<{"Types._string"}, {"Types._object", NULL}>>,
                   "BsonClasses.Code", NoAttr, FALSE))
    @@ ("Symbols.Long" :>
          Callable("Long", SYMBOL_TYPE.CONSTRUCTOR,
                   <<{"Types._numeric"}, {"Types._numeric", NULL}>>,
                   "BsonClasses.Long", ("fromBits" :> "Long.fromBits"), FALSE))
    @@ ("Symbols.Int32" :>
          Callable("Int32", SYMBOL_TYPE.CONSTRUCTOR,
                   <<{"Types._numeric", "_string"}>>,
                   "BsonClasses.Int32", NoAttr, FALSE))
    @@ ("Symbols.MaxKey" :>
          Callable("MaxKey", SYMBOL_TYPE.CONSTRUCTOR, <<>>,
                   "BsonClasses.MaxKey", NoAttr, FALSE))
    @@ ("Symbols.Decimal128" :>
          Callable("Decimal128", SYMBOL_TYPE.CONSTRUCTOR,
                   <<{"Types._string"}>>,
                   "BsonClasses.Decimal128", NoAttr, FALSE))
    @@ ("Symbols.Timestamp" :>
          Callable("Timestamp", SYMBOL_TYPE.CONSTRUCTOR,
                   <<{"Types._integer"}, {"Types._integer"}>>,
                   "BsonClasses.Timestamp", NoAttr, TRUE))
    @@ ("Symbols.BSONRegExp" :>
          Callable("BSONRegExp", SYMBOL_TYPE.CONSTRUCTOR,
                   <<{"Types._string"}, {"Types._string", NULL}>>,
                   "BsonClasses.RegExp", NoAttr, FALSE))
    @@ ("Symbols.Date" :>
          Callable("Date", SYMBOL_TYPE.CONSTRUCTOR,
                   <<{"Types._string", "Types._numeric", NULL}>>,
                   "JSClasses.Date", NoAttr, FALSE))
    @@ ("Symbols.RegExp" :>
          Callable("RegExp", SYMBOL_TYPE.CONSTRUCTOR,
                   <<{"Types._string", "Types._regex"}, {"Types._string", NULL}>>,
                   "JSClasses.Regex", NoAttr, FALSE))
    @@ ("Symbols.NumberLong" :>
          [Callable("NumberLong", SYMBOL_TYPE.CONSTRUCTOR,
                    <<{"Types._numeric", "Types._string"}>>,
                    "BsonClasses.Long", NoAttr, FALSE) EXCEPT !.template = TRUE])
    @@ ("Long.fromBits" :>
          Callable("LongfromBits", SYMBOL_TYPE.FUNC,
                   <<{"Types._integer"}, {"Types._integer"}>>,
                   "BsonClasses.Long", NoAttr, FALSE))
    @@ ("Long.toString" :>
          Callable("LongtoString", SYMBOL_TYPE.FUNC,
                   <<{"Types._integer", NULL}>>,
                   "Types._string", NoAttr, FALSE))

TypeNames == DOMAIN TypeTable

\* BsonSymbols: the recognized BSON classes, by name.
BsonSymbols ==
    [n \in {"ObjectId", "Binary", "Code", "Long", "Int32", "MaxKey",
            "Decimal128", "Timestamp", "BSONRegExp"} |-> "Symbols." \o n]

\* Symbols: every recognized top-level identifier.
Symbols ==
    BsonSymbols @@ ("Date" :> "Symbols.Date") @@ ("RegExp" :> "Symbols.RegExp")
    @@ ("NumberLong" :> "Symbols.NumberLong")

\* The symbol table the walkers share: this.Symbols and this.Types.
SymbolTable == [Symbols |-> Symbols, Types |-> TypeTable]

\* The table after the assignments a walk made to the fields of its Types, in
\* order; a write is [type, field, value].
RECURSIVE Written(_, _)
Written(table, writes) ==
    IF writes = <<>> THEN table
    ELSE Written([table EXCEPT !.Types[Head(writes).type] =
                                  [@ EXCEPT ![Head(writes).field] = Head(writes).value]],
                 Tail(writes))

\* A Type's template applied to the rendered parts: the symbol table's emission
\* override, kept symbolic.
Template(t, parts) == <<"template:" \o TypeTable[t].id, "(">> \o parts \o <<")">>

\* A Type's argsTemplate applied to (lhs, ...args).
ArgsTemplate(t, parts) == <<"argsTemplate:" \o TypeTable[t].id, "(">> \o parts \o <<")">>

\* ------------------------------------------------------------ the parse tree

\* The value executeJavascript's evaluation of a node's text yields: a host
\* value (its canonical string, its binary subtype) or a thrown error.
\* A regular expression's source and flags are sequences of characters.
JsValue(str, sub) ==
    [ok |-> TRUE, message |-> "", str |-> str, sub_type |-> sub,
     source |-> <<>>, flags |-> <<>>]
JsRegExp(source, flags) ==
    [ok |-> TRUE, message |-> "", str |-> "", sub_type |-> 0,
     source |-> source, flags |-> flags]
JsThrows(msg) ==
    [ok |-> FALSE, message |-> msg, str |-> "", sub_type |-> 0,
     source |-> <<>>, flags |-> <<>>]
NoJs == JsValue("", 0)

Node(kind, name, text, kids, hasArgs, args, js) ==
    [kind |-> kind, name |-> name, text |-> text, kids |-> kids,
     hasArgs |-> hasArgs, args |-> args, js |-> js]

Identifier(name) == Node("Identifier", name, <<name>>, <<>>, FALSE, <<>>, NoJs)
Literal(lit, text) == Node("Literal", lit, text, <<>>, FALSE, <<>>, NoJs)
\* A regular expression literal: the literal expression and, under it, the
\* node of the literal itself.
RegularExpressionLiteral(text, js) ==
    Node("Literal", "RegularExpressionLiteral", text,
         <<Node("RegularExpressionLiteral", "", text, <<>>, FALSE, <<>>, js)>>,
         FALSE, <<>>, NoJs)
GetAttribute(lhs, name) == Node("GetAttribute", name, <<>>, <<lhs>>, FALSE, <<>>, NoJs)
\* arguments().argumentList() is null for a call without arguments: hasArgs = FALSE.
FuncCall(callee, args, js) == Node("FuncCall", "", <<>>, <<callee>>, args # <<>>, args, js)
New(expr) == Node("New", "", <<>>, <<expr>>, FALSE, <<>>, NoJs)
ExpressionSequence(expr) == Node("ExpressionSequence", "", <<>>, <<expr>>, FALSE, <<>>, NoJs)
Parenthesized(expr) == Node("Parenthesized", "", <<>>, <<expr>>, FALSE, <<>>, NoJs)
\* An octal literal: the literal expression and, under it, the node of the
\* literal itself; its text is a sequence of characters.
OctalIntegerLiteral(text) ==
    Node("Literal", "OctalIntegerLiteral", text,
         <<Node("OctalIntegerLiteral", "", text, <<>>, FALSE, <<>>, NoJs)>>,
         FALSE, <<>>, NoJs)
\* The empty object literal: the expression and, under it, the literal.
ObjectLiteral ==
    Node("ObjectLiteralExpression", "", <<"{", "}">>,
         <<Node("ObjectLiteral", "", <<"{", "}">>, <<>>, FALSE, <<>>, NoJs)>>,
         FALSE, <<>>, NoJs)
\* An element list: its children are its elements, the commas filtered out.
ElementList(elements) == Node("ElementList", "", <<>>, elements, FALSE, <<>>, NoJs)
\* The Python grammar's constructor nodes: one kind per recognized class.
Constructor(class, args, js) ==
    Node(class, "", <<>>, <<Identifier(class)>>, args # <<>>, args, js)

\* ---------------------------------------------------------- the walker state

NoError == [class |-> "none", message |-> "", index |-> -1]

\* types: the nodes' type slots, by path; log: what was visited, in order;
\* alloc, live: the evaluation contexts allocated and not destroyed;
\* thrown: the messages of the errors the evaluations threw;
\* out, list: the returned string (tokens) or array; err: the error thrown.
Fresh ==
    [types |-> [p \in {} |-> ""], log |-> <<>>, writes |-> <<>>, alloc |-> 0, live |-> {},
     thrown |-> <<>>, out |-> <<>>, list |-> <<>>, err |-> NoError]

Ok(s) == s.err.class = "none"
Return(s, out) == [s EXCEPT !.out = out, !.list = <<>>]
ReturnList(s, list) == [s EXCEPT !.out = <<>>, !.list = list]
Throw(s, class, message) ==
    [s EXCEPT !.out = <<>>, !.list = <<>>,
              !.err = [class |-> class, message |-> message, index |-> -1]]
ThrowAt(s, class, message, i) ==
    [s EXCEPT !.out = <<>>, !.list = <<>>,
              !.err = [class |-> class, message |-> message, index |-> i]]
SetType(s, p, t) == [s EXCEPT !.types = (p :> t) @@ s.types]
TypeAt(s, p) == IF p \in DOMAIN s.types THEN s.types[p] ELSE UNDEFINED
Log(s, ev, p) == [s EXCEPT !.log = Append(@, [ev |-> ev, at |-> p])]

RECURSIVE Join(_, _)
Join(list, sep) ==
    IF list = <<>> THEN <<>>
    ELSE IF Len(list) = 1 THEN list[1]
    ELSE list[1] \o <<sep>> \o Join(Tail(list), sep)

\* The string of a sequence of characters.
RECURSIVE Concat(_)
Concat(chars) == IF chars = <<>> THEN "" ELSE Head(chars) \o Concat(Tail(chars))

\* ------------------------------------------------------------- the helpers

\* String.prototype.charAt and String.prototype.substr, on a sequence of
\* characters.
charAt(str, i) == IF i >= 0 /\ i < Len(str) THEN str[i + 1] ELSE ""
substr(str, from, length) ==
    SubSeq(str, from + 1, IF from + length < Len(str) THEN from + length ELSE Len(str))

\* doubleQuoteStringify, singleQuoteStringify: a surrounding pair of quotes is
\* taken off and the target's quotes are put around the text.
Unquoted(text) ==
    IF Len(text) >= 2 /\ text[1] = text[Len(text)] /\ text[1] \in {"'", "\""}
    THEN SubSeq(text, 2, Len(text) - 1)
    ELSE text
doubleQuoteStringify(text) == <<"\"">> \o Unquoted(text) \o <<"\"">>
singleQuoteStringify(text) == <<"'">> \o Unquoted(text) \o <<"'">>

\* String.prototype.trim on the emitted text: the only white space at an end of
\* it is that of a trailing ', ' separator.
Trim(code) ==
    IF code # <<>> /\ code[Len(code)] = ", "
    THEN SubSeq(code, 1, Len(code) - 1) \o <<",">>
    ELSE code


\* The one element of a singleton set: { e(x) : x \in {v} } names the value v
\* as x in e.
Only(S) == CHOOSE x \in S : TRUE

\* ------------------------------------------------------------- the sandbox

\* executeJavascript: a fresh context, the evaluation, the context's destruction.
\* js is what evaluating '__result = ' + input yields.
executeJavascript(js, s) ==
    LET id == s.alloc + 1
        s1 == [s EXCEPT !.alloc = id, !.live = @ \cup {id}]
    IN  IF js.ok
        THEN [s1 EXCEPT !.live = @ \ {id}]
        ELSE Throw([s1 EXCEPT !.thrown = Append(@, js.message)], "Error", js.message)

\* --------------------------------------------------------------- the walker

RECURSIVE visit(_, _, _, _)

\* A child of a node, as the parser lists it: a terminal or a rule node.
Terminal(text) == [term |-> TRUE, text |-> text, node |-> Identifier(""), at |-> <<>>]
Rule(node, at) == [term |-> FALSE, text |-> <<>>, node |-> node, at |-> at]

\* ctx.children
ChildrenOf(ctx, p) ==
    CASE ctx.kind = "New" -> <<Terminal(<<"new">>), Rule(ctx.kids[1], p \o <<0>>)>>
      [] ctx.kind = "ExpressionSequence" -> <<Rule(ctx.kids[1], p \o <<0>>)>>
      [] ctx.kind = "Parenthesized" ->
           <<Terminal(<<"(">>), Rule(ctx.kids[1], p \o <<0>>), Terminal(<<")">>)>>
      [] ctx.kind = "Literal" /\ ctx.kids # <<>> -> <<Rule(ctx.kids[1], p \o <<0>>)>>
      [] ctx.kind = "ObjectLiteralExpression" -> <<Rule(ctx.kids[1], p \o <<0>>)>>
      [] ctx.kind = "ObjectLiteral" -> <<Terminal(<<"{">>), Terminal(<<"}">>)>>
      [] OTHER -> <<Terminal(ctx.text)>>

\* visitChildren's options, with its defaults; end = -1 stands for no end given.
Options(children) ==
    [start |-> 0, step |-> 1, separator |-> "", ignore |-> {},
     children |-> children, end |-> -1]

\* visitTerminal, or the visit of a rule node; a child index past the list is
\* visit(undefined).
visitChild(tgt, children, i, s) ==
    IF i + 1 > Len(children) \/ i < 0
    THEN Throw(s, "TypeError", "Cannot read property 'accept' of undefined")
    ELSE IF children[i + 1].term
         THEN Return(s, children[i + 1].text)
         ELSE visit(tgt, children[i + 1].node, children[i + 1].at, s)

\* The for loop of visitChildren from child i on.
RECURSIVE visitChildrenLoop(_, _, _, _, _, _)
visitChildrenLoop(tgt, opts, end, i, code, s) ==
    IF i > end THEN Return(s, code)
    ELSE IF i \in opts.ignore
         THEN visitChildrenLoop(tgt, opts, end, i + opts.step, code, s)
         ELSE Only({
                IF ~Ok(s1) THEN s1
                ELSE visitChildrenLoop(tgt, opts, end, i + opts.step,
                       code \o s1.out \o
                         (IF i = end \/ opts.separator = "" THEN <<>>
                          ELSE <<opts.separator>>),
                       s1)
                : s1 \in {visitChild(tgt, opts.children, i, s)} })

visitChildren(tgt, ctx, p, s, opts) ==
    LET end == IF opts.end # -1 THEN opts.end ELSE Len(opts.children) - 1
    IN  Only({
          LET first == IF opts.children = <<>> THEN Types["_undefined"]
                       ELSE IF opts.children[1].term THEN UNDEFINED
                       ELSE TypeAt(s1, opts.children[1].at)
          IN  IF ~Ok(s1) THEN s1
              ELSE Return(IF TypeAt(s1, p) = UNDEFINED THEN SetType(s1, p, first) ELSE s1,
                          Trim(s1.out))
          : s1 \in {visitChildrenLoop(tgt, opts, end, opts.start, <<>>, s)} })

\* getPrimitiveType: the Type of a literal's syntactic form.
getPrimitiveType(lit) ==
    CASE lit = "NullLiteral" -> Types["_null"]
      [] lit = "UndefinedLiteral" -> Types["_undefined"]
      [] lit = "BooleanLiteral" -> Types["_bool"]
      [] lit = "StringLiteral" -> Types["_string"]
      [] lit = "RegularExpressionLiteral" -> Types["_regex"]
      [] lit = "IntegerLiteral" -> Types["_integer"]
      [] lit = "DecimalLiteral" -> Types["_decimal"]
      [] lit = "HexIntegerLiteral" -> Types["_hex"]
      [] lit = "OctalIntegerLiteral" -> Types["_octal"]
      [] OTHER -> Types["_undefined"]

\* ---------------------------------------------------- the argument checker

NumericTypes == {Types["_integer"], Types["_decimal"], Types["_hex"], Types["_octal"]}

\* The path of a call's argument i (from 0); the callee is at p \o <<0>>.
ArgPath(p, i) == p \o <<i + 1>>

\* The loop of checkArguments from slot i on: an absent argument ends it, a
\* present one is visited and its type looked up in the slot.
RECURSIVE checkArgumentsLoop(_, _, _, _, _, _, _)
checkArgumentsLoop(tgt, expect, args, p, i, argStr, s) ==
    IF i >= Len(expect) THEN ReturnList(s, argStr)
    ELSE IF i + 1 > Len(args)
    THEN IF NULL \in expect[i + 1]
         THEN ReturnList(s, argStr)
         ELSE Throw(s, "SemanticArgumentCountMismatchError", "too few arguments")
    ELSE Only({
           LET t == TypeAt(s1, ArgPath(p, i))
               next == checkArgumentsLoop(tgt, expect, args, p, i + 1,
                                          Append(argStr, s1.out), s1)
           IN  IF ~Ok(s1) THEN s1
               ELSE IF Types["_numeric"] \in expect[i + 1] /\ t \in NumericTypes THEN next
               ELSE IF t \in expect[i + 1] THEN next
               ELSE IF t \notin TypeNames
               THEN Throw(s1, "TypeError", "Cannot read property 'id' of " \o t)
               ELSE IF TypeTable[t].id \in expect[i + 1] THEN next
               ELSE IF NULL \in expect[i + 1]
               THEN \* the message maps every slot entry e to e.id: null.id
                    Throw(s1, "TypeError", "Cannot read property 'id' of null")
               ELSE ThrowAt(s1, "SemanticTypeError",
                            "expected types but got type " \o TypeTable[t].id
                              \o " for argument at index " \o ToString(i), i)
           : s1 \in {visit(tgt, args[i + 1], ArgPath(p, i), s)} })

\* checkArguments without its test of args.length against expected.length.
checkArgumentsUnbounded(tgt, expect, ctx, p, s) ==
    IF ~ctx.hasArgs
    THEN IF Len(expect) = 0
         THEN ReturnList(s, <<>>)
         ELSE Throw(s, "SemanticArgumentCountMismatchError", "arguments required")
    ELSE checkArgumentsLoop(tgt, expect, ctx.args, p, 0, <<>>, s)

\* checkArguments(expected, argumentList): ctx.hasArgs is argumentList # null.
checkArguments(tgt, expect, ctx, p, s) ==
    IF ~ctx.hasArgs
    THEN IF Len(expect) = 0
         THEN ReturnList(s, <<>>)
         ELSE Throw(s, "SemanticArgumentCountMismatchError", "arguments required")
    ELSE IF Len(ctx.args) > Len(expect)
    THEN Throw(s, "SemanticArgumentCountMismatchError", "Arguments mismatch")
    ELSE checkArgumentsLoop(tgt, expect, ctx.args, p, 0, <<>>, s)

\* --------------------------------------------------------- the Java emitters

\* An emitter without a catch: the evaluation's error leaves it as thrown.
RethrowBare(s, class) == s

\* The thrown error of a sandbox evaluation, caught and thrown again as class.
Rethrow(s, class) == Throw(s, class, s.err.message)

emitDate(ctx, p, s) ==
    LET s1 == SetType(s, p, "JSClasses.Date")
        e == executeJavascript(ctx.js, s1)
    IN  IF ~ctx.hasArgs THEN Return(s1, <<"new java.util.Date()">>)
        ELSE IF ~Ok(e) THEN Rethrow(e, "CodeGenerationError")
        ELSE Return(e, <<"new java.util.Date(", ctx.js.str, ")">>)

\* emitCode without the test of the scope's type.
emitCodeAnyScope(ctx, p, s) ==
    LET s1 == SetType(s, p, "BsonClasses.Code")
        code == doubleQuoteStringify(ctx.args[1].text)
    IN  IF ~ctx.hasArgs \/ ~(Len(ctx.args) = 1 \/ Len(ctx.args) = 2)
        THEN Throw(s1, "CodeGenerationError", "Code requires one or two arguments")
        ELSE IF Len(ctx.args) = 2
        THEN Only({
               IF ~Ok(s2) THEN s2
               ELSE Return(s2, <<"new CodeWithScope(">> \o code \o <<", ">> \o s2.out \o <<")">>)
               : s2 \in {visit("java", ctx.args[2], ArgPath(p, 1), s1)} })
        ELSE Return(s1, <<"new Code(">> \o code \o <<")">>)

emitCode(ctx, p, s) ==
    LET s1 == SetType(s, p, "BsonClasses.Code")
        code == doubleQuoteStringify(ctx.args[1].text)
    IN  IF ~ctx.hasArgs \/ ~(Len(ctx.args) = 1 \/ Len(ctx.args) = 2)
        THEN Throw(s1, "CodeGenerationError", "Code requires one or two arguments")
        ELSE IF Len(ctx.args) = 2
        THEN Only({
               IF ~Ok(s2) THEN s2
               ELSE IF TypeAt(s2, ArgPath(p, 1)) # Types["_object"]
               THEN Throw(s2, "CodeGenerationError", "Code requires scope to be an object")
               ELSE Return(s2, <<"new CodeWithScope(">> \o code \o <<", ">> \o s2.out \o <<")">>)
               : s2 \in {visit("java", ctx.args[2], ArgPath(p, 1), s1)} })
        ELSE Return(s1, <<"new Code(">> \o code \o <<")">>)

emitObjectId(ctx, p, s) ==
    LET s1 == SetType(s, p, "BsonClasses.ObjectId")
        e == executeJavascript(ctx.js, s1)
    IN  IF ~ctx.hasArgs THEN Return(s1, <<"new ObjectId()">>)
        ELSE IF ~Ok(e) THEN Rethrow(e, "CodeGenerationError")
        ELSE Return(e, <<"new ObjectId(">> \o doubleQuoteStringify(<<ctx.js.str>>) \o <<")">>)

\* JAVA_BINARY_SUBTYPES: a subtype outside the table renders as undefined.
JAVA_BINARY_SUBTYPES ==
    (0 :> "org.bson.BsonBinarySubType.BINARY")
    @@ (1 :> "org.bson.BsonBinarySubType.FUNCTION")
    @@ (2 :> "org.bson.BsonBinarySubType.BINARY")
    @@ (3 :> "org.bson.BsonBinarySubType.UUID_LEGACY")
    @@ (4 :> "org.bson.BsonBinarySubType.UUID")
    @@ (5 :> "org.bson.BsonBinarySubType.MD5")
    @@ (128 :> "org.bson.BsonBinarySubType.USER_DEFINED")

Lookup(table, key) == IF key \in DOMAIN table THEN table[key] ELSE UNDEFINED

emitBinary(ctx, p, s) ==
    LET s1 == SetType(s, p, "BsonClasses.Binary")
        e == executeJavascript(ctx.js, s1)
        bytes == doubleQuoteStringify(<<ctx.js.str>>)
    IN  IF ~Ok(e) THEN Rethrow(e, "CodeGenerationError")
        ELSE IF ~ctx.hasArgs
        THEN \* ctx.arguments().argumentList() is null
             Throw(e, "TypeError", "Cannot read property 'singleExpression' of null")
        ELSE IF Len(ctx.args) = 1
        THEN Return(e, <<"new Binary(">> \o bytes \o <<".getBytes(\"UTF-8\"))">>)
        ELSE Return(e, <<"new Binary(", Lookup(JAVA_BINARY_SUBTYPES, ctx.js.sub_type), ", ">>
                         \o bytes \o <<".getBytes(\"UTF-8\"))">>)

emitLong(ctx, p, s) ==
    LET s1 == SetType(s, p, "BsonClasses.Long")
        e == executeJavascript(ctx.js, s1)
    IN  IF ~Ok(e) THEN Rethrow(e, "CodeGenerationError")
        ELSE Return(e, <<"new java.lang.Long(">> \o doubleQuoteStringify(<<ctx.js.str>>) \o <<")">>)

\* The fragment evaluated is 'new ' + ctx.getText(): ctx.js is its value.
emitDecimal128(ctx, p, s) ==
    LET s1 == SetType(s, p, "BsonClasses.Decimal128")
        e == executeJavascript(ctx.js, s1)
    IN  IF ~Ok(e) THEN Rethrow(e, "CodeGenerationError")
        ELSE Return(e, <<"Decimal128.parse(">> \o doubleQuoteStringify(<<ctx.js.str>>) \o <<")">>)

emitLongfromBits(ctx, p, s) == emitLong(ctx, p, s)

\* JAVA_REGEX_FLAGS: the JavaScript flags and what the Java pattern has for them.
JAVA_REGEX_FLAGS ==
    ("i" :> <<"i">>) @@ ("m" :> <<"m">>) @@ ("u" :> <<"u">>) @@ ("y" :> <<>>) @@ ("g" :> <<>>)

\* flags.replace(/[imuyg]/g, m => table[m]): every flag of the table is
\* replaced, any other character stays.
RECURSIVE replaceFlags(_, _)
replaceFlags(table, flags) ==
    IF flags = <<>> THEN <<>>
    ELSE (IF Head(flags) \in DOMAIN table THEN table[Head(flags)] ELSE <<Head(flags)>>)
         \o replaceFlags(table, Tail(flags))

\* pattern.replace(/\\(?!\/)/, '\\\\'): the first backslash that no slash
\* follows is doubled, from index i on.
RECURSIVE escapeFrom(_, _)
escapeFrom(pattern, i) ==
    IF i > Len(pattern) THEN pattern
    ELSE IF pattern[i] = "\\" /\ (i = Len(pattern) \/ pattern[i + 1] # "/")
    THEN SubSeq(pattern, 1, i) \o <<"\\">> \o SubSeq(pattern, i + 1, Len(pattern))
    ELSE escapeFrom(pattern, i + 1)

\* The Java visitor's visitRegularExpressionLiteral.
visitRegularExpressionLiteral_java(ctx, p, s) ==
    LET s1 == SetType(s, p, "JSClasses.Regex")
        e == executeJavascript(ctx.js, s1)
        replaced == replaceFlags(JAVA_REGEX_FLAGS, ctx.js.flags)
        javaflags == IF replaced = <<>> THEN <<>> ELSE <<"(?">> \o replaced \o <<")">>
        escaped == escapeFrom(ctx.js.source, 1)
    IN  IF ~Ok(e) THEN Rethrow(e, "CodeGenerationError")
        ELSE Return(e, <<"Pattern.compile(">> \o doubleQuoteStringify(escaped \o javaflags)
                         \o <<")">>)

emitRegExp(ctx, p, s) == visitRegularExpressionLiteral_java(ctx, p, s)

\* The flags emitBSONRegExp lets through.
JAVA_BSON_FLAGS == {"i", "m", "x", "l", "s", "u"}

\* The for loop of emitBSONRegExp over the rendered flags, the quotes at both
\* ends left out: the index of the first character it does not let through, 0
\* when there is none.
RECURSIVE firstUnsupported(_, _)
firstUnsupported(flags, i) ==
    IF i > Len(flags) - 1 THEN 0
    ELSE IF flags[i] \notin JAVA_BSON_FLAGS THEN i
    ELSE firstUnsupported(flags, i + 1)

emitBSONRegExp(ctx, p, s) ==
    LET s1 == SetType(s, p, "BsonClasses.RegExp")
    IN  IF ~ctx.hasArgs \/ ~(Len(ctx.args) = 1 \/ Len(ctx.args) = 2)
        THEN Throw(s1, "CodeGenerationError", "BSONRegExp requires one or two arguments")
        ELSE Only({
          IF ~Ok(a) THEN a
          ELSE IF TypeAt(a, ArgPath(p, 0)) # Types["_string"]
          THEN Throw(a, "CodeGenerationError", "BSONRegExp requires pattern to be a string")
          ELSE IF Len(ctx.args) = 2
          THEN Only({
                 IF ~Ok(f) THEN f
                 ELSE IF TypeAt(f, ArgPath(p, 1)) # Types["_string"]
                 THEN Throw(f, "CodeGenerationError",
                            "BSONRegExp requires flags to be a string")
                 ELSE IF firstUnsupported(f.out, 2) # 0
                 THEN \* the message is returned as the translation
                      Return(f, <<"Error: the regular expression options [",
                                  f.out[firstUnsupported(f.out, 2)],
                                  "] is not supported">>)
                 ELSE Return(f, <<"new BsonRegularExpression(">> \o a.out \o <<", ">>
                                  \o f.out \o <<")">>)
                 : f \in {visit("java", ctx.args[2], ArgPath(p, 1), a)} })
          ELSE Return(a, <<"new BsonRegularExpression(">> \o a.out \o <<")">>)
          : a \in {visit("java", ctx.args[1], ArgPath(p, 0), s1)} })

\* ctx.singleExpression() is the attribute access, its singleExpression() the Long.
emitLongtoString(ctx, p, s) ==
    LET s1 == SetType(s, p, Types["_string"])
        lhsType == TypeAt(s1, p \o <<0>>)
        long == ctx.kids[1].kids[1]
        e == executeJavascript(long.js, s1)
    IN  IF ~Ok(e) THEN Rethrow(e, "CodeGenerationError")
        ELSE IF ~ctx.hasArgs
        THEN Return(e, <<"java.lang.Long.toString(", long.js.str, ")">>)
        ELSE Only({
               IF ~Ok(a) THEN a
               ELSE Return(a, <<"java.lang.Long.toString(", long.js.str, ", ">>
                                \o Join(a.list, ", ") \o <<")">>)
               : a \in {checkArguments("java", TypeTable[lhsType].args, ctx, p, e)} })

\* The emit<Id> methods of a target's visitor, by Type id.
EmitHooks(tgt) ==
    IF tgt = "java"
    THEN {"Date", "RegExp", "BSONRegExp", "Code", "ObjectId", "Binary", "Long", "Decimal128",
          "LongfromBits", "LongtoString"}
    ELSE {}

\* this[`emit${id}`](ctx)
Emit(id, ctx, p, s) ==
    Only({
      CASE id = "Date" -> emitDate(ctx, p, s1)
        [] id = "RegExp" -> emitRegExp(ctx, p, s1)
        [] id = "BSONRegExp" -> emitBSONRegExp(ctx, p, s1)
        [] id = "Code" -> emitCode(ctx, p, s1)
        [] id = "ObjectId" -> emitObjectId(ctx, p, s1)
        [] id = "Binary" -> emitBinary(ctx, p, s1)
        [] id = "Long" -> emitLong(ctx, p, s1)
        [] id = "Decimal128" -> emitDecimal128(ctx, p, s1)
        [] id = "LongfromBits" -> emitLongfromBits(ctx, p, s1)
        [] id = "LongtoString" -> emitLongtoString(ctx, p, s1)
      : s1 \in {Log(s, "emit", p)} })

\* ------------------------------------------------------ the generic visitors

visitLiteralExpression(tgt, ctx, p, s) ==
    LET t == getPrimitiveType(ctx.name)
        s1 == SetType(s, p, t)
    IN  IF TypeTable[t].id \in EmitHooks(tgt) THEN Emit(TypeTable[t].id, ctx, p, s1)
        ELSE Only({
               IF ~Ok(c) THEN c
               ELSE IF TypeTable[t].template THEN Return(c, Template(t, c.out))
               ELSE c
               : c \in {visitChildren(tgt, ctx, p, s1, Options(ChildrenOf(ctx, p)))} })

\* The base visitObjectLiteral, of an object literal without properties: a
\* Type without a template leaves the method without a value.
visitObjectLiteral(ctx, p, s) ==
    LET s1 == SetType(s, p, Types["_object"])
    IN  IF TypeTable[Types["_object"]].template
        THEN Return(s1, Template(Types["_object"], <<>>))
        ELSE Return(s1, <<UNDEFINED>>)

\* The new-token of the walker: this.new.
NewToken == ""

\* A node type given as a Type's id stands for that Type.
TypeOf(t) == IF t \in DOMAIN Types THEN Types[t] ELSE t

\* The generic call with the arguments checked before the callee is known to
\* be callable.
genericCallArgsFirst(tgt, ctx, p, s1, lhsType) ==
    Only({
      IF ~Ok(s3) THEN s3
      ELSE IF TypeTable[lhsType].callable = SYMBOL_TYPE.VAR
      THEN Throw(s3, "SemanticTypeError", TypeTable[lhsType].id \o " is not callable")
      ELSE Return(s3, s1.out \o <<"(">> \o Join(s3.list, ", ") \o <<")">>)
      : s3 \in {checkArguments(tgt, TypeTable[lhsType].args, ctx, p,
                   Log(SetType(s1, p, TypeTable[lhsType].type), "generic", p))} })

\* The generic call, once the callee is visited (s1) and no emitter is hooked.
genericCall(tgt, ctx, p, s1, lhsType) ==
    LET lhs == s1.out
        T == TypeTable[lhsType]
        s2 == Log(SetType(s1, p, T.type), "generic", p)
        newStr == IF T.callable = SYMBOL_TYPE.CONSTRUCTOR THEN NewToken ELSE ""
        new == IF newStr = "" THEN <<>> ELSE <<newStr>>
        callee == ctx.kids[1]
    IN  IF T.callable = SYMBOL_TYPE.VAR
        THEN Throw(s2, "SemanticTypeError", T.id \o " is not callable")
        ELSE Only({
               IF ~Ok(s3) THEN s3
               ELSE IF ~T.argsTemplate
               THEN Return(s3, new \o lhs \o <<"(">> \o Join(s3.list, ", ") \o <<")">>)
               ELSE IF callee.kind # "GetAttribute"
               THEN Return(s3, new \o lhs
                                 \o ArgsTemplate(lhsType, Join(<<lhs>> \o s3.list, ", ")))
               ELSE \* an attribute access as callee: its left side is visited again
                    Only({
                      IF ~Ok(l) THEN l
                      ELSE Return(l, new \o lhs
                                       \o ArgsTemplate(lhsType, Join(<<l.out>> \o s3.list, ", ")))
                      : l \in {visit(tgt, callee.kids[1], p \o <<0, 0>>, s3)} })
               : s3 \in {checkArguments(tgt, T.args, ctx, p, s2)} })

visitFuncCallExpression(tgt, ctx, p, s) ==
    Only({
      LET lhsType == TypeOf(TypeAt(s1, p \o <<0>>))
      IN  IF ~Ok(s1) THEN s1
          ELSE IF lhsType \notin TypeNames
          THEN Throw(s1, "TypeError", "Cannot read property 'id' of " \o lhsType)
          ELSE IF TypeTable[lhsType].id \in EmitHooks(tgt)
          THEN Emit(TypeTable[lhsType].id, ctx, p, s1)
          ELSE genericCall(tgt, ctx, p, s1, lhsType)
      : s1 \in {visit(tgt, ctx.kids[1], p \o <<0>>, s)} })

\* visitIdentifierExpression without its reference error.
visitIdentifierExpressionLenient(tgt, ctx, p, s) ==
    Only({
      IF ~Ok(c) THEN c
      ELSE Return(SetType(c, p, Lookup(Symbols, c.out[1])), c.out)
      : c \in {visitChildren(tgt, ctx, p, s, Options(ChildrenOf(ctx, p)))} })

\* visitIdentifierExpression with the name kept on the looked-up Type as its
\* id.
visitIdentifierExpressionNaming(tgt, ctx, p, s) ==
    Only({
      LET name == c.out[1]
          t == Lookup(Symbols, name)
          s1 == SetType(c, p, t)
          s2 == [s1 EXCEPT !.writes = Append(@, [type |-> t, field |-> "id",
                                                 value |-> "Symbols." \o name])]
      IN  IF ~Ok(c) THEN c
          ELSE IF t = UNDEFINED
          THEN Throw(s1, "SemanticReferenceError", "symbol \"" \o name \o "\" is undefined")
          ELSE IF TypeTable[t].template THEN Return(s2, Template(t, <<>>))
          ELSE Return(s2, <<name>>)
      : c \in {visitChildren(tgt, ctx, p, s, Options(ChildrenOf(ctx, p)))} })

visitIdentifierExpression(tgt, ctx, p, s) ==
    Only({
      LET name == c.out[1]
          t == Lookup(Symbols, name)
          s1 == SetType(c, p, t)
      IN  IF ~Ok(c) THEN c
          ELSE IF t = UNDEFINED
          THEN Throw(s1, "SemanticReferenceError", "symbol \"" \o name \o "\" is undefined")
          ELSE IF TypeTable[t].template THEN Return(s1, Template(t, <<>>))
          ELSE Return(s1, <<name>>)
      : c \in {visitChildren(tgt, ctx, p, s, Options(ChildrenOf(ctx, p)))} })

\* The while loop of visitGetAttributeExpression: the Type that declares rhs,
\* null at the end of the chain, or the error thrown on the way.
RECURSIVE resolveAttribute(_, _)
resolveAttribute(type, rhs) ==
    IF type = NULL THEN [class |-> "none", type |-> NULL]
    ELSE IF type \notin TypeNames
    THEN [class |-> "TypeError", type |-> type]
    ELSE IF rhs \in DOMAIN TypeTable[type].attr
    THEN [class |-> "none", type |-> type]
    ELSE IF TypeTable[type].id \in DOMAIN BsonSymbols
    THEN \* this.BsonSymbols.type.id: the entry of BsonSymbols named 'type'
         IF "type" \notin DOMAIN BsonSymbols
         THEN [class |-> "TypeError", type |-> type]
         ELSE [class |-> "SemanticAttributeError", type |-> type]
    ELSE resolveAttribute(TypeOf(TypeTable[type].type), rhs)

visitGetAttributeExpression(tgt, ctx, p, s) ==
    Only({
      LET lhs == s1.out
          rhs == ctx.name
          a == TypeTable[r.type].attr[rhs]
      IN  IF ~Ok(s1) THEN s1
          ELSE IF r.class = "TypeError"
          THEN Throw(s1, "TypeError", "Cannot read property of undefined")
          ELSE IF r.class = "SemanticAttributeError"
          THEN Throw(s1, "SemanticAttributeError",
                     rhs \o " not an attribute of " \o TypeTable[r.type].id)
          ELSE IF r.type = NULL
          THEN Return(SetType(s1, p, Types["_undefined"]), lhs \o <<".", rhs>>)
          ELSE IF TypeTable[a].template
          THEN Return(SetType(s1, p, a), Template(a, lhs \o <<",", rhs>>))
          ELSE Return(SetType(s1, p, a), lhs \o <<".", rhs>>)
      : <<s1, r>> \in
          { <<x, IF Ok(x) THEN resolveAttribute(TypeOf(TypeAt(x, p \o <<0>>)), ctx.name)
                 ELSE [class |-> "none", type |-> NULL]>>
            : x \in {visit(tgt, ctx.kids[1], p \o <<0>>, s)} } })

\* The Java visitor's visitNewExpression.
visitNewExpression_java(ctx, p, s) ==
    Only({
      IF ~Ok(s1) THEN s1
      ELSE Return(SetType(s1, p, TypeAt(s1, p \o <<0>>)), s1.out)
      : s1 \in {visit("java", ctx.kids[1], p \o <<0>>, s)} })

\* ------------------------------------------------------ the Python visitors

visitStringLiteral(ctx, p, s) ==
    Only({
      IF ~Ok(c) THEN c ELSE Return(c, singleQuoteStringify(c.out))
      : c \in {visitChildren("python", ctx, p, SetType(s, p, Types["_string"]),
                             Options(ChildrenOf(ctx, p)))} })

visitNewExpression_python(ctx, p, s) ==
    Only({
      IF ~Ok(c) THEN c
      ELSE Return(SetType(c, p, TypeAt(c, p \o <<0>>)), c.out)
      : c \in {visitChildren("python", ctx, p, s,
                             [Options(ChildrenOf(ctx, p)) EXCEPT !.start = 1])} })

\* argumentList.getChildCount(): the arguments and the commas between them.
getChildCount(ctx) == 2 * Len(ctx.args) - 1

visitOctalIntegerLiteral(ctx, p, s) ==
    Only({
      LET oct == c.out
          offset == IF charAt(oct, 0) = "0" /\ charAt(oct, 1) \in {"0", "o", "O"} THEN 2
                    ELSE IF charAt(oct, 0) = "0" THEN 1
                    ELSE 0
      IN  IF ~Ok(c) THEN c
          ELSE Return(c, <<"0", "o">> \o substr(oct, offset, Len(oct) - 1))
      : c \in {visitChildren("python", ctx, p, SetType(s, p, Types["_octal"]),
                             Options(ChildrenOf(ctx, p)))} })

visitObjectLiteral_python(ctx, p, s) ==
    visitChildren("python", ctx, p, SetType(s, p, Types["_object"]),
                  Options(ChildrenOf(ctx, p)))

visitBSONCodeConstructor(ctx, p, s) ==
    LET code == singleQuoteStringify(ctx.args[1].text)
    IN  IF ~ctx.hasArgs \/ (getChildCount(ctx) # 1 /\ getChildCount(ctx) # 3)
        THEN Throw(s, "SemanticArgumentCountMismatchError", "")
        ELSE IF Len(ctx.args) = 2
        THEN Only({
               IF ~Ok(s2) THEN s2
               ELSE IF TypeAt(s2, ArgPath(p, 1)) # Types["_object"]
               THEN Throw(s2, "SemanticTypeError", "Code requires scope to be an object")
               ELSE Return(s2, <<"Code(">> \o code \o <<", ">> \o s2.out \o <<")">>)
               : s2 \in {visit("python", ctx.args[2], ArgPath(p, 1), s)} })
        ELSE Return(s, <<"Code(">> \o code \o <<")">>)

visitBSONObjectIdConstructor(ctx, p, s) ==
    LET e == executeJavascript(ctx.js, s)
    IN  IF ~ctx.hasArgs THEN Return(s, <<"ObjectId()">>)
        ELSE IF getChildCount(ctx) # 1
        THEN Throw(s, "SemanticArgumentCountMismatchError",
                   "ObjectId requires zero or one argument")
        ELSE IF ~Ok(e) THEN Rethrow(e, "SemanticGenericError")
        ELSE Return(e, <<"ObjectId(">> \o singleQuoteStringify(<<ctx.js.str>>) \o <<")">>)

\* subtypes, the Python table of the binary subtypes.
subtypes ==
    (0 :> "bson.binary.BINARY_SUBTYPE")
    @@ (1 :> "bson.binary.FUNCTION_SUBTYPE")
    @@ (2 :> "bson.binary.OLD_BINARY_SUBTYPE")
    @@ (3 :> "bson.binary.OLD_UUID_SUBTYPE")
    @@ (4 :> "bson.binary.UUID_SUBTYPE")
    @@ (5 :> "bson.binary.MD5_SUBTYPE")
    @@ (6 :> "bson.binary.CSHARP_LEGACY")
    @@ (128 :> "bson.binary.USER_DEFINED_SUBTYPE")

visitBSONBinaryConstructor(ctx, p, s) ==
    LET e == executeJavascript(ctx.js, s)
        bytes == singleQuoteStringify(<<ctx.js.str>>)
    IN  IF ~ctx.hasArgs \/ (getChildCount(ctx) # 1 /\ getChildCount(ctx) # 3)
        THEN Throw(s, "SemanticArgumentCountMismatchError",
                   "Binary requires one or two argument")
        ELSE IF ~Ok(e) THEN Rethrow(e, "SemanticGenericError")
        ELSE IF Len(ctx.args) = 1
        THEN Return(e, <<"Binary(bytes(">> \o bytes \o <<", 'utf-8'))">>)
        ELSE Return(e, <<"Binary(bytes(">> \o bytes \o <<", 'utf-8'), ">>
                         \o <<Lookup(subtypes, ctx.js.sub_type), ")">>)

visitBSONDoubleConstructor(ctx, p, s) ==
    IF ~ctx.hasArgs \/ getChildCount(ctx) # 1
    THEN Throw(s, "SemanticArgumentCountMismatchError", "Double requires one argument")
    ELSE Only({
      IF ~Ok(arg) THEN arg
      ELSE IF /\ TypeAt(arg, ArgPath(p, 0)) # Types["_string"]
              /\ TypeAt(arg, ArgPath(p, 0)) # Types["_decimal"]
              /\ TypeAt(arg, ArgPath(p, 0)) # Types["_integer"]
      THEN Throw(arg, "SemanticTypeError", "Double requires a number or a string argument")
      ELSE Return(arg, <<"float(">> \o Unquoted(arg.out) \o <<")">>)
      : arg \in {visit("python", ctx.args[1], ArgPath(p, 0), s)} })

visitBSONLongConstructor(ctx, p, s) ==
    LET e == executeJavascript(ctx.js, s)
    IN  IF ~ctx.hasArgs \/ (getChildCount(ctx) # 1 /\ getChildCount(ctx) # 3)
        THEN Throw(s, "SemanticArgumentCountMismatchError",
                   "Long requires one or two argument")
        ELSE IF ~Ok(e) THEN Rethrow(e, "SemanticGenericError")
        ELSE Return(e, <<"Int64(", ctx.js.str, ")">>)

\* ctx.js.str stands for the date's UTC components joined by ', '.
visitDateConstructorExpression(ctx, p, s) ==
    LET e == executeJavascript(ctx.js, s)
    IN  IF ~ctx.hasArgs THEN Return(s, <<"datetime.datetime.utcnow().date()">>)
        ELSE IF ~Ok(e) THEN Rethrow(e, "SemanticGenericError")
        ELSE Return(e, <<"datetime.datetime(", ctx.js.str,
                         ", tzinfo=datetime.timezone.utc)">>)

\* visitBSONTimestampConstructor with both arguments visited before either
\* type is tested.
visitBSONTimestampConstructorLate(ctx, p, s) ==
    IF ~ctx.hasArgs \/ getChildCount(ctx) # 3
    THEN Throw(s, "SemanticArgumentCountMismatchError", "Timestamp requires two arguments")
    ELSE Only({
      IF ~Ok(high) THEN high
      ELSE IF TypeAt(high, ArgPath(p, 0)) # Types["_integer"]
      THEN Throw(high, "SemanticTypeError",
                 "Timestamp first argument requires integer arguments")
      ELSE IF TypeAt(high, ArgPath(p, 1)) # Types["_integer"]
      THEN Throw(high, "SemanticTypeError",
                 "Timestamp second argument requires integer arguments")
      ELSE Return(high, <<"Timestamp(">> \o low.out \o <<", ">> \o high.out \o <<")">>)
      : low \in {visit("python", ctx.args[1], ArgPath(p, 0), s)},
        high \in {visit("python", ctx.args[2], ArgPath(p, 1),
                        visit("python", ctx.args[1], ArgPath(p, 0), s))} })

visitBSONTimestampConstructor(ctx, p, s) ==
    IF ~ctx.hasArgs \/ getChildCount(ctx) # 3
    THEN Throw(s, "SemanticArgumentCountMismatchError", "Timestamp requires two arguments")
    ELSE Only({
      IF ~Ok(low) THEN low
      ELSE IF TypeAt(low, ArgPath(p, 0)) # Types["_integer"]
      THEN Throw(low, "SemanticTypeError",
                 "Timestamp first argument requires integer arguments")
      ELSE Only({
             IF ~Ok(high) THEN high
             ELSE IF TypeAt(high, ArgPath(p, 1)) # Types["_integer"]
             THEN Throw(high, "SemanticTypeError",
                        "Timestamp second argument requires integer arguments")
             ELSE Return(high, <<"Timestamp(">> \o low.out \o <<", ">> \o high.out
                                 \o <<")">>)
             : high \in {visit("python", ctx.args[2], ArgPath(p, 1), low)} })
      : low \in {visit("python", ctx.args[1], ArgPath(p, 0), s)} })

visitBSONMaxKeyConstructor(ctx, p, s) == Return(s, <<"MaxKey()">>)

\* PYTHON_REGEX_FLAGS of buildRegExp.
PYTHON_REGEX_FLAGS ==
    ("i" :> <<"i">>) @@ ("m" :> <<"m">>) @@ ("u" :> <<"a">>) @@ ("y" :> <<"">>)
    @@ ("g" :> <<"s">>)

\* flags.split('').map(item => table[item]): a flag outside the table maps to
\* undefined.
RECURSIVE mapFlags(_, _)
mapFlags(table, flags) ==
    IF flags = <<>> THEN <<>>
    ELSE (IF Head(flags) \in DOMAIN table THEN table[Head(flags)] ELSE <<UNDEFINED>>)
         \o mapFlags(table, Tail(flags))

\* The order Array.prototype.sort puts the mapped flags in: by their strings,
\* the undefined ones last.
FlagRank == ("" :> 0) @@ ("a" :> 1) @@ ("i" :> 2) @@ ("m" :> 3) @@ ("s" :> 4)
            @@ (UNDEFINED :> 5)

RECURSIVE insertFlag(_, _)
insertFlag(f, sorted) ==
    IF sorted = <<>> THEN <<f>>
    ELSE IF FlagRank[f] < FlagRank[Head(sorted)] THEN <<f>> \o sorted
    ELSE <<Head(sorted)>> \o insertFlag(f, Tail(sorted))

RECURSIVE sort(_)
sort(flags) == IF flags = <<>> THEN <<>> ELSE insertFlag(Head(flags), sort(Tail(flags)))

\* join(''): the empty string and undefined add nothing.
joinFlags(flags) == SelectSeq(flags, LAMBDA f : f \notin {"", UNDEFINED})

buildRegExp(ctx, p, s) ==
    LET e == executeJavascript(ctx.js, s)
        escaped == escapeFrom(ctx.js.source, 1)
        flags == joinFlags(sort(mapFlags(PYTHON_REGEX_FLAGS, ctx.js.flags)))
    IN  IF ~Ok(e) THEN Rethrow(e, "SemanticGenericError")
        ELSE IF ctx.js.flags # <<>>
        THEN Return(e, <<"re.compile(r">>
                         \o doubleQuoteStringify(escaped \o <<"(?">> \o flags \o <<")">>)
                         \o <<")">>)
        ELSE Return(e, <<"re.compile(r">> \o doubleQuoteStringify(escaped) \o <<")">>)

visitRegExpConstructorExpression(ctx, p, s) == buildRegExp(ctx, p, s)

\* BSON_FLAGS of visitBSONRegExpConstructor.
BSON_FLAGS ==
    ("i" :> "i") @@ ("m" :> "m") @@ ("x" :> "x") @@ ("s" :> "s") @@ ("l" :> "l")
    @@ ("u" :> "u")

visitBSONRegExpConstructor(ctx, p, s) ==
    IF ~ctx.hasArgs \/ (getChildCount(ctx) # 1 /\ getChildCount(ctx) # 3)
    THEN Throw(s, "SemanticArgumentCountMismatchError",
               "BSONRegExp requires one or two arguments")
    ELSE Only({
      IF ~Ok(a) THEN a
      ELSE IF TypeAt(a, ArgPath(p, 0)) # Types["_string"]
      THEN Throw(a, "SemanticTypeError", "BSONRegExp requires pattern to be a string")
      ELSE IF Len(ctx.args) = 2
      THEN Only({
             LET letters == Unquoted(f.out)
                 unsuppotedFlags == SelectSeq(letters, LAMBDA c : c \notin DOMAIN BSON_FLAGS)
                 flags == [k \in DOMAIN letters |-> BSON_FLAGS[letters[k]]]
             IN  IF ~Ok(f) THEN f
                 ELSE IF TypeAt(f, ArgPath(p, 1)) # Types["_string"]
                 THEN Throw(f, "SemanticTypeError", "BSONRegExp requires flags to be a string")
                 ELSE IF f.out = <<>>
                 THEN Return(f, <<"RegExp(">> \o a.out \o <<", ">> \o f.out \o <<")">>)
                 ELSE IF unsuppotedFlags # <<>>
                 THEN Throw(f, "SemanticGenericError",
                            "Regular expression contains unsuppoted '"
                              \o Concat(unsuppotedFlags) \o "' flag")
                 ELSE Return(f, <<"RegExp(">> \o a.out \o <<", ">>
                                  \o singleQuoteStringify(flags) \o <<")">>)
             : f \in {visit("python", ctx.args[2], ArgPath(p, 1), a)} })
      ELSE Return(a, <<"RegExp(">> \o a.out \o <<")">>)
      : a \in {visit("python", ctx.args[1], ArgPath(p, 0), s)} })

visitRegularExpressionLiteral_python(ctx, p, s) == buildRegExp(ctx, p, s)

\* ------------------------------------------------------------- the dispatch

\* ctx.accept(visitor): the visit method of the node's kind, in the target's
\* visitor when it overrides it.
visit(tgt, ctx, p, s) ==
    Only({
      CASE ctx.kind = "Literal" ->
             IF tgt = "python" /\ ctx.name = "StringLiteral"
             THEN visitStringLiteral(ctx, p, s0)
             ELSE visitLiteralExpression(tgt, ctx, p, s0)
        [] ctx.kind = "Identifier" -> visitIdentifierExpression(tgt, ctx, p, s0)
        [] ctx.kind = "GetAttribute" -> visitGetAttributeExpression(tgt, ctx, p, s0)
        [] ctx.kind = "FuncCall" -> visitFuncCallExpression(tgt, ctx, p, s0)
        [] ctx.kind = "New" ->
             IF tgt = "python" THEN visitNewExpression_python(ctx, p, s0)
             ELSE visitNewExpression_java(ctx, p, s0)
        [] ctx.kind = "OctalIntegerLiteral" -> visitOctalIntegerLiteral(ctx, p, s0)
        [] ctx.kind = "ObjectLiteral" ->
             IF tgt = "python" THEN visitObjectLiteral_python(ctx, p, s0)
             ELSE visitObjectLiteral(ctx, p, s0)
        [] ctx.kind \in {"ExpressionSequence", "Parenthesized", "ObjectLiteralExpression"} ->
             visitChildren(tgt, ctx, p, s0, Options(ChildrenOf(ctx, p)))
        [] ctx.kind = "RegularExpressionLiteral" ->
             IF tgt = "python" THEN visitRegularExpressionLiteral_python(ctx, p, s0)
             ELSE visitRegularExpressionLiteral_java(ctx, p, s0)
        [] ctx.kind = "RegExpConstructorExpression" ->
             visitRegExpConstructorExpression(ctx, p, s0)
        [] ctx.kind = "BSONRegExpConstructor" -> visitBSONRegExpConstructor(ctx, p, s0)
        [] ctx.kind = "BSONCodeConstructor" -> visitBSONCodeConstructor(ctx, p, s0)
        [] ctx.kind = "BSONDoubleConstructor" -> visitBSONDoubleConstructor(ctx, p, s0)
        [] ctx.kind = "BSONTimestampConstructor" ->
             visitBSONTimestampConstructor(ctx, p, s0)
        [] ctx.kind = "BSONObjectIdConstructor" -> visitBSONObjectIdConstructor(ctx, p, s0)
        [] ctx.kind = "BSONBinaryConstructor" -> visitBSONBinaryConstructor(ctx, p, s0)
        [] ctx.kind = "BSONLongConstructor" -> visitBSONLongConstructor(ctx, p, s0)
        [] ctx.kind = "DateConstructorExpression" -> visitDateConstructorExpression(ctx, p, s0)
        [] ctx.kind = "BSONMaxKeyConstructor" -> visitBSONMaxKeyConstructor(ctx, p, s0)
      : s0 \in {Log(s, "visit", p)} })

\* start(ctx): visitExpressionSequence(ctx) by a fresh walker.
start(tgt, ctx) == visit(tgt, ctx, <<>>, Fresh)

\* =================================================== the argument checker,
\* applied to a schema and an argument list drawn from bounded sets

\* The slots a schema is drawn from: sets of Types and Type ids, the optional
\* ones holding the null sentinel.
SlotChoices ==
    { {Types["_string"]},
      {Types["_numeric"]},
      {Types["_integer"], NULL},
      {Types["_bool"], "_string"},
      {Types["_string"], Types["_numeric"], NULL} }

Optional(slot) == NULL \in slot

\* The optional slots of a schema are its last ones.
WellFormed(S) ==
    \A i, j \in 1..Len(S) : (i < j /\ Optional(S[i])) => Optional(S[j])

SeqsUpTo(S, n) == UNION {[1..m -> S] : m \in 0..n}

Schemas == {S \in SeqsUpTo(SlotChoices, MaxSlots) : WellFormed(S)}

ArgNodes ==
    { Literal("StringLiteral", <<"'", "a", "'">>),
      Literal("IntegerLiteral", <<"1">>),
      Literal("BooleanLiteral", <<"true">>),
      Parenthesized(ExpressionSequence(Literal("IntegerLiteral", <<"1">>))) }

ArgLists == SeqsUpTo(ArgNodes, MaxArgs)

Idle == [Fresh EXCEPT !.out = <<>>]

InitArgs ==
    /\ target = "java"
    /\ expected \in Schemas
    /\ \E args \in ArgLists : tree = FuncCall(Identifier("Int32"), args, NoJs)
    /\ res = Idle
    /\ pc = "ready"
    /\ runs = 0
    /\ leaked = 0
    /\ symbols = SymbolTable
    /\ options = Options(<<>>)

CheckArgs ==
    /\ pc = "ready"
    /\ res' = checkArguments(target, expected, tree, <<>>, Fresh)
    /\ symbols' = Written(symbols, res'.writes)
    /\ pc' = "done"
    /\ UNCHANGED <<target, tree, expected, runs, leaked, options>>

NextArgs == CheckArgs

SpecArgs == InitArgs /\ [][NextArgs]_vars


\* ------------------------------------------------- visitChildren on its own

\* The elements of the lists: the integer literals 1, 2, 3, ...
Digit == <<"1", "2", "3", "4", "5", "6", "7", "8", "9">>
Elements(n) == [i \in 1..n |-> Literal("IntegerLiteral", <<Digit[i]>>)]

\* The children of an element list as visitElementList hands them over, child
\* i (from 0) at path <<i>>.
ElementsOf(ctx) == [i \in 1..Len(ctx.kids) |-> Rule(ctx.kids[i], <<i - 1>>)]

\* The options a caller can give for n children: a range inside the list, a
\* positive step, the indexes to ignore, the separator; end = -1 is no end given.
OptionChoices(ctx) ==
    LET n == Len(ctx.kids)
    IN  { [start |-> st, step |-> sp, separator |-> sep, ignore |-> ig,
           children |-> ElementsOf(ctx), end |-> en] :
            st \in 0..(n - 1), sp \in {1, 2}, sep \in {"", ", "},
            ig \in SUBSET (0..(n - 1)), en \in {-1} \cup 0..(n - 1) }

InitChildren ==
    /\ target \in Targets
    /\ \E n \in 1..MaxChildren : tree = ElementList(Elements(n))
    /\ options \in OptionChoices(tree)
    /\ expected = <<>>
    /\ res = Idle
    /\ pc = "ready"
    /\ runs = 0
    /\ leaked = 0
    /\ symbols = SymbolTable

CallVisitChildren ==
    /\ pc = "ready"
    /\ res' = visitChildren(target, tree, <<>>, Fresh, options)
    /\ symbols' = Written(symbols, res'.writes)
    /\ pc' = "done"
    /\ UNCHANGED <<target, tree, expected, runs, leaked, options>>

NextChildren == CallVisitChildren

SpecChildren == InitChildren /\ [][NextChildren]_vars

\* ====================================================== the translations,
\* applied to parse trees drawn from bounded sets

\* What evaluating a node's text in the sandbox yields.
JsOutcomes == {JsValue("5ab9", 4), JsThrows("invalid input")}

\* What evaluating a regular expression yields: /a\d/gi, /a/, or an error.
RegExpOutcomes ==
    { JsRegExp(<<"a", "\\", "d">>, <<"g", "i">>), JsRegExp(<<"a">>, <<>>),
      JsThrows("invalid input") }

\* The flags of a regular expression as its flags property gives them: without
\* duplicates, in the order g, i, m, u, y.
FlagOrder == <<"g", "i", "m", "u", "y">>
FlagSets == {SelectSeq(FlagOrder, LAMBDA f : f \in S) : S \in SUBSET {"g", "i", "m", "u", "y"}}

\* The sources of the regular expression literals: a, a\d, \d\w, \/\d.
Sources ==
    {<<"a">>, <<"a", "\\", "d">>, <<"\\", "d", "\\", "w">>, <<"\\", "/", "\\", "d">>}

RegExpText(source, flags) == <<"/">> \o source \o <<"/">> \o flags

RegExps ==
    {RegularExpressionLiteral(RegExpText(<<"a">>, f), JsRegExp(<<"a">>, f)) : f \in FlagSets}
    \cup {RegularExpressionLiteral(RegExpText(src, f), JsRegExp(src, f)) :
             src \in Sources, f \in {<<>>, <<"g", "i">>}}
    \cup {RegularExpressionLiteral(<<"/", "a", "/">>, JsThrows("invalid input"))}

StringArg == Literal("StringLiteral", <<"'", "a", "'">>)
IntegerArg == Literal("IntegerLiteral", <<"1">>)

\* The flags of the BSON regular expressions of the inputs, as string literals.
FlagStrings == {<<>>, <<"i", "m">>, <<"x", "s", "l", "u">>, <<"g">>, <<"i", "g", "y">>}

FlagsArg(f) == Literal("StringLiteral", <<"'">> \o f \o <<"'">>)

BSONRegExpArgs ==
    {<<>>, <<StringArg>>, <<IntegerArg>>, <<StringArg, IntegerArg>>,
     <<StringArg, StringArg, StringArg>>}
    \cup {<<StringArg, FlagsArg(f)>> : f \in FlagStrings}

ObjectArg == ObjectLiteral

ArgChoices ==
    {<<>>, <<StringArg>>, <<IntegerArg>>, <<StringArg, IntegerArg>>,
     <<IntegerArg, IntegerArg>>, <<StringArg, ObjectArg>>,
     <<StringArg, ObjectArg, IntegerArg>>}

\* What the sandbox yields for a Binary call with a subtype: the subtype is the
\* number the call passes.
BinaryOutcomes == {JsValue("abc", sub) : sub \in {0, 4, 6, 7, 128}}

\* The octal literals of the inputs: a prefix 0, 0o or 0O and one digit or more.
OctalDigits == {"0", "1", "7"}
OctalLiterals ==
    {OctalIntegerLiteral(prefix \o digits) :
        prefix \in {<<"0">>, <<"0", "o">>, <<"0", "O">>},
        digits \in UNION {[1..m -> OctalDigits] : m \in 1..MaxDigits}}

\* The arguments of the Double calls: a literal of every numeric form, a
\* string, an object, none and two.
DoubleArgs ==
    {<<>>, <<StringArg>>, <<IntegerArg>>, <<Literal("DecimalLiteral", <<"1", ".", "5">>)>>,
     <<Literal("HexIntegerLiteral", <<"0", "x", "1", "f">>)>>,
     <<OctalIntegerLiteral(<<"0", "1", "7">>)>>, <<ObjectArg>>, <<StringArg, IntegerArg>>}

TimestampArgs == ArgChoices \cup {<<IntegerArg, StringArg>>}

\* The identifiers of the inputs: recognized names and unknown ones.
Names ==
    {"ObjectId", "Binary", "Code", "Long", "Int32", "MaxKey", "Decimal128",
     "Timestamp", "Date", "RegExp", "NumberLong", "foo", "type"}

ALong == FuncCall(Identifier("Long"), <<IntegerArg>>, JsValue("1", 0))

Attributes ==
    { GetAttribute(Identifier("Long"), "fromBits"),
      GetAttribute(Identifier("Long"), "foo"),
      GetAttribute(Identifier("ObjectId"), "foo"),
      GetAttribute(Identifier("Date"), "foo"),
      GetAttribute(Identifier("foo"), "bar"),
      GetAttribute(ALong, "toString"),
      GetAttribute(ALong, "foo"),
      GetAttribute(FuncCall(Identifier("Int32"), <<IntegerArg>>, NoJs), "foo"),
      GetAttribute(StringArg, "length"),
      GetAttribute(Parenthesized(ExpressionSequence(Identifier("Long"))), "fromBits") }

Callees ==
    {Identifier(n) : n \in Names \ {"RegExp"}}
    \cup {a \in Attributes : a.name \in {"fromBits", "toString", "length"}}
    \cup { StringArg,
           FuncCall(Identifier("Int32"), <<IntegerArg>>, NoJs),
           FuncCall(Identifier("Int32"), <<>>, NoJs),
           Parenthesized(ExpressionSequence(Identifier("Int32"))) }

Calls ==
    {FuncCall(c, a, js) : c \in Callees, a \in ArgChoices, js \in JsOutcomes}
    \cup {FuncCall(Identifier("RegExp"), <<StringArg>>, js) : js \in RegExpOutcomes}
    \cup {FuncCall(Identifier("BSONRegExp"), a, NoJs) : a \in BSONRegExpArgs}
    \cup {FuncCall(Identifier("Binary"), <<StringArg, IntegerArg>>, js) : js \in BinaryOutcomes}

\* The Java target's inputs.
JavaExpressions ==
    {Identifier(n) : n \in Names}
    \cup {StringArg, IntegerArg}
    \cup RegExps
    \cup Attributes
    \cup Calls
    \cup {New(c) : c \in {k \in Calls : k.kids[1].kind = "Identifier" /\ Len(k.args) = 1}}
    \cup {Parenthesized(ExpressionSequence(e)) : e \in {StringArg, Identifier("ObjectId")}}

ConstructorKinds ==
    {"BSONCodeConstructor", "BSONObjectIdConstructor", "BSONBinaryConstructor",
     "BSONLongConstructor", "DateConstructorExpression", "BSONMaxKeyConstructor"}

Constructors ==
    {Constructor(k, a, js) : k \in ConstructorKinds, a \in ArgChoices, js \in JsOutcomes}

\* The Python target's inputs.
PythonExpressions ==
    {Identifier(n) : n \in Names}
    \cup {StringArg, IntegerArg}
    \cup RegExps
    \cup {Constructor("RegExpConstructorExpression", <<StringArg>>, js) : js \in RegExpOutcomes}
    \cup {Constructor("BSONRegExpConstructor", a, NoJs) : a \in BSONRegExpArgs}
    \cup {Constructor("BSONTimestampConstructor", a, NoJs) : a \in TimestampArgs}
    \cup {Constructor("BSONBinaryConstructor", <<StringArg, IntegerArg>>, js) :
             js \in BinaryOutcomes}
    \cup OctalLiterals
    \cup {Constructor("BSONDoubleConstructor", a, NoJs) : a \in DoubleArgs}
    \cup Constructors
    \cup {New(c) : c \in {k \in Constructors : Len(k.args) = 1}}
    \cup {FuncCall(Identifier(n), a, NoJs) : n \in {"Int32", "foo"}, a \in ArgChoices}
    \cup {FuncCall(GetAttribute(Identifier("Long"), "fromBits"), a, NoJs) : a \in ArgChoices}
    \cup {GetAttribute(Identifier("Long"), "fromBits"), GetAttribute(Identifier("Code"), "foo")}

Expressions(tgt) == IF tgt = "java" THEN JavaExpressions ELSE PythonExpressions

Init ==
    /\ target = "java"
    /\ tree = ExpressionSequence(Identifier(""))
    /\ expected = <<>>
    /\ res = Idle
    /\ pc = "idle"
    /\ runs = 0
    /\ leaked = 0
    /\ symbols = SymbolTable
    /\ options = Options(<<>>)

\* The parser hands the walker the tree of an input: an expression sequence.
Parse ==
    /\ pc \in {"idle", "done"}
    /\ runs < MaxRuns
    /\ \E tgt \in Targets :
         /\ target' = tgt
         /\ \E e \in Expressions(tgt) : tree' = ExpressionSequence(e)
    /\ res' = Idle
    /\ pc' = "parsed"
    /\ runs' = runs + 1
    /\ UNCHANGED <<expected, leaked, symbols, options>>

\* A translation: the walk of the tree by a fresh walker of the target. The
\* contexts it leaves undestroyed stay allocated, and what it assigned to the
\* Types of the symbol table stays assigned.
Translate(tgt) ==
    /\ pc = "parsed"
    /\ target = tgt
    /\ res' = start(tgt, tree)
    /\ leaked' = leaked + Cardinality(res'.live)
    /\ symbols' = Written(symbols, res'.writes)
    /\ pc' = "done"
    /\ UNCHANGED <<target, tree, expected, runs, options>>

TranslateJava == Translate("java")

TranslatePython == Translate("python")

Next == Parse \/ TranslateJava \/ TranslatePython

Spec == Init /\ [][Next]_vars

\* ============================================================ the properties

\* ---- of checkArguments, under SpecArgs

\* The call's number of arguments (0 without an argument list) and the arity
\* bounds of the schema: its slots without the optional sentinel, all its slots.
K == Len(tree.args)
Hi == Len(expected)
Lo == Cardinality({i \in 1..Len(expected) : ~Optional(expected[i])})

\* The type the walker gives argument i (from 1) when it visits it.
ArgType(i) == TypeAt(visit(target, tree.args[i], <<>>, Fresh), <<>>)

\* A type is in a slot's set: itself, its id, or under _numeric.
InSlot(t, slot) ==
    \/ t \in slot
    \/ t \in TypeNames /\ TypeTable[t].id \in slot
    \/ Types["_numeric"] \in slot /\ t \in NumericTypes

AllMatch == \A i \in 1..K : InSlot(ArgType(i), expected[i])

ArityError(s) == s.err.class = "SemanticArgumentCountMismatchError"

\* How often the argument at index i (from 0) was visited.
Visits(s, i) ==
    Cardinality({k \in 1..Len(s.log) : s.log[k].ev = "visit" /\ s.log[k].at = <<i + 1>>})

\* C1: checkArguments succeeds exactly when lo <= k <= hi and the type of each
\* supplied argument is in its slot's set, a call without an argument list
\* being one with k = 0; in every other case it raises an error.
C1_SucceedsExactlyWithinBounds ==
    pc = "done" => (Ok(res) <=> (Lo <= K /\ K <= Hi /\ AllMatch))

\* C2 as stated: an argument-count-mismatch error is raised when the call has
\* more arguments than the schema has slots (before any argument is visited)
\* and when an argument is absent for a slot without the optional sentinel.
C2_ArityErrorWheneverCountIsWrong ==
    pc = "done" =>
        /\ K > Hi => (ArityError(res) /\ res.log = <<>>)
        /\ (K < Hi /\ ~Optional(expected[K + 1])) => ArityError(res)

\* C2 amended: the argument-count-mismatch error is raised for too many
\* arguments before any argument is visited, and for an argument absent from a
\* slot without the sentinel when every supplied argument matches its slot.
C2_ArityErrorAfterMatchingArguments ==
    pc = "done" =>
        /\ K > Hi => (ArityError(res) /\ res.log = <<>>)
        /\ (K < Hi /\ ~Optional(expected[K + 1]) /\ AllMatch) => ArityError(res)

\* C2's case: an argument list that matches its slots and stops before a
\* required slot, and the list longer than the schema.
C2_Witness ==
    /\ pc = "done"
    /\ K >= 1 /\ K < Hi /\ ~Optional(expected[K + 1]) /\ AllMatch
    /\ ArityError(res)
    /\ Visits(res, 0) = 1

\* C3: when the argument at index i is the lowest-indexed one whose type is
\* not in slot i, a type error naming index i is raised, the arguments 0..i-1
\* and i have been visited exactly once and no argument after i is visited.
C3_FirstMismatchIsReportedByIndex ==
    (pc = "done" /\ K <= Hi /\ \A j \in 1..K : ArgType(j) \in TypeNames) =>
        \A i \in 1..K :
            (~InSlot(ArgType(i), expected[i])
               /\ \A j \in 1..(i - 1) : InSlot(ArgType(j), expected[j]))
            => /\ res.err.class = "SemanticTypeError"
               /\ res.err.index = i - 1
               /\ \A j \in 1..i : Visits(res, j - 1) = 1
               /\ \A j \in (i + 1)..K : Visits(res, j - 1) = 0

\* ---- of the translations, under Spec

\* The expression of the input and the path of its node.
Root == tree.kids[1]
RootPath == <<0>>
Done == pc = "done"

RECURSIVE Resolution(_, _)
Resolution(type, rhs) ==
    IF type = NULL THEN "raw"
    ELSE IF rhs \in DOMAIN TypeTable[type].attr THEN TypeTable[type].attr[rhs]
    ELSE IF TypeTable[type].id \in DOMAIN BsonSymbols THEN "error"
    ELSE Resolution(TypeOf(TypeTable[type].type), rhs)

\* The left side of the input's attribute access, visited alone.
LeftSide == visit(target, Root.kids[1], RootPath \o <<0>>, Fresh)

\* C5: the attribute is resolved along the left side's type chain: missing on a
\* recognized BSON symbol it is an attribute error; missing and the chain ended
\* the node's type is _undefined and lhs.rhs is emitted; found, the node's type
\* is the attribute's Type.
C5_AttributeIsResolvedAlongTheChain ==
    (Done /\ Root.kind = "GetAttribute" /\ Ok(LeftSide)
       /\ TypeOf(TypeAt(LeftSide, RootPath \o <<0>>)) \in TypeNames) =>
        LET r == Resolution(TypeOf(TypeAt(LeftSide, RootPath \o <<0>>)), Root.name)
        IN  CASE r = "error" -> res.err.class = "SemanticAttributeError"
              [] r = "raw" -> /\ Ok(res)
                              /\ TypeAt(res, RootPath) = Types["_undefined"]
                              /\ res.out = LeftSide.out \o <<".", Root.name>>
              [] OTHER -> Ok(res) /\ TypeAt(res, RootPath) = r

\* The callee of the input's call, visited alone, and its Type.
Callee == visit(target, Root.kids[1], RootPath \o <<0>>, Fresh)
CalleeType == TypeOf(TypeAt(Callee, RootPath \o <<0>>))

Logged(s, ev, p) == \E k \in 1..Len(s.log) : s.log[k] = [ev |-> ev, at |-> p]

\* C6: after the callee is visited, a call whose callee Type has an emitter
\* hook is delegated to the hook and the generic callable check and argument
\* check are not run; otherwise a callee Type that is not callable is a type
\* error raised before any argument is visited.
C6_HookFirstThenCallable ==
    (Done /\ Root.kind = "FuncCall" /\ Ok(Callee) /\ CalleeType \in TypeNames) =>
        IF TypeTable[CalleeType].id \in EmitHooks(target)
        THEN Logged(res, "emit", RootPath) /\ ~Logged(res, "generic", RootPath)
        ELSE TypeTable[CalleeType].callable = SYMBOL_TYPE.VAR =>
               /\ res.err.class = "SemanticTypeError"
               /\ \A i \in 1..Len(Root.args) : ~Logged(res, "visit", ArgPath(RootPath, i - 1))

\* C6's case: a call with arguments whose callee is not callable and has no hook.
C6_Witness ==
    /\ Done /\ Root.kind = "FuncCall" /\ Ok(Callee) /\ CalleeType \in TypeNames
    /\ TypeTable[CalleeType].id \notin EmitHooks(target)
    /\ TypeTable[CalleeType].callable = SYMBOL_TYPE.VAR
    /\ Len(Root.args) > 0
    /\ res.err.class = "SemanticTypeError"

\* C7: after a successful translation every visited node has a type slot set
\* to some Type, never undefined or null.
C7_VisitedNodesAreTyped ==
    (Done /\ Ok(res)) =>
        \A k \in 1..Len(res.log) :
            res.log[k].ev = "visit" => TypeAt(res, res.log[k].at) \in TypeNames

\* C8: every context executeJavascript allocates is destroyed before control
\* leaves it, whether the evaluation returns or throws: after any sequence of
\* evaluations none remains.
C8_NoContextRemains ==
    /\ leaked = 0
    /\ Done => res.live = {}

\* The generic error of a target: SemanticGenericError of helper/error, the
\* Java generator's CodeGenerationError.
GenericErrors == {"SemanticGenericError", "CodeGenerationError"}

\* C9: when a sandbox evaluation fails inside a constructor emitter, the
\* translation fails with a generic error whose message is the evaluation
\* error's message, and with no output.
C9_EvaluationFailureIsGeneric ==
    (Done /\ res.thrown # <<>>) =>
        /\ res.err.class \in GenericErrors
        /\ res.err.message = res.thrown[Len(res.thrown)]
        /\ res.out = <<>>

\* C9's case: an evaluation threw inside a Python constructor visitor.
C9_Witness ==
    /\ Done /\ target = "python" /\ res.thrown = <<"invalid input">>
    /\ res.err.class = "SemanticGenericError"
    /\ res.err.message = "invalid input"

\* The error kinds of the error reporter.
DeclaredErrors ==
    {"SemanticArgumentCountMismatchError", "SemanticTypeError",
     "SemanticReferenceError", "SemanticAttributeError"} \cup GenericErrors

\* C10: every failure of a translation is one of the declared error kinds,
\* never an unclassified runtime exception.
C10_FailuresAreDeclaredKinds ==
    Done => (Ok(res) \/ res.err.class \in DeclaredErrors)

\* The arguments of the input's call, and whether the input is a call of the
\* class in its target: a call of the identifier in Java, the class's
\* constructor node in Python.
Args == Root.args
IsCallOf(class, pythonKind) ==
    \/ target = "java" /\ Root.kind = "FuncCall" /\ Root.kids[1] = Identifier(class)
    \/ target = "python" /\ Root.kind = pythonKind

Range(seq) == {seq[k] : k \in 1..Len(seq)}

IsString(node) == node.kind = "Literal" /\ node.name = "StringLiteral"

\* The letters a BSON regular expression accepts, and those of a flags
\* literal that are not among them.
BsonFlagLetters == {"i", "m", "x", "s", "l", "u"}
Offending(flags) == SelectSeq(Unquoted(flags.text), LAMBDA c : c \notin BsonFlagLetters)

\* A message lists the letters: it holds them, in order, in one piece.
ListsLetters(message, letters) ==
    \E head \in {"Regular expression contains unsuppoted '",
                  "Error: the regular expression options ["},
       tail \in {"' flag", "] is not supported"} :
        message = head \o Concat(letters) \o tail

\* The rendering of a string literal in the translation.
Quoted(node) ==
    IF target = "python" THEN <<"'">> \o Unquoted(node.text) \o <<"'">> ELSE node.text

\* C11: BSONRegExp(pattern, flags) with two strings translates with the flags
\* unchanged when every flag letter is in {i, m, x, s, l, u}; with a letter
\* outside the set it fails with a generic error whose message lists all the
\* offending letters, and no output is returned.
C11_BsonRegExpFlagsAreValidated ==
    (Done /\ IsCallOf("BSONRegExp", "BSONRegExpConstructor") /\ Len(Args) = 2
       /\ IsString(Args[1]) /\ IsString(Args[2])) =>
        IF Offending(Args[2]) = <<>>
        THEN /\ Ok(res)
             /\ res.out = <<IF target = "python" THEN "RegExp("
                             ELSE "new BsonRegularExpression(">>
                           \o Quoted(Args[1]) \o <<", ">> \o Quoted(Args[2]) \o <<")">>
        ELSE /\ res.err.class \in GenericErrors
             /\ ListsLetters(res.err.message, Offending(Args[2]))
             /\ res.out = <<>>

\* The number of arguments of the input's call.
ArgCount == IF Root.hasArgs THEN Len(Args) ELSE 0

\* The translation of an expression on its own.
Alone(node) == start(target, ExpressionSequence(node))

\* An argument's raw source text in the target's quotes.
RawQuoted(node) ==
    IF target = "python" THEN singleQuoteStringify(node.text)
    ELSE doubleQuoteStringify(node.text)

\* C12: a Code(...) call translates exactly when it has 1 argument, or 2 of
\* which the second has type _object, and fails otherwise; on success the first
\* argument is emitted as its quoted raw source text and is never visited:
\* Code(code) / Code(code, scope) in Python, new Code(code) /
\* new CodeWithScope(code, scope) in Java.
C12_CodeTakesCodeAndObjectScope ==
    (Done /\ IsCallOf("Code", "BSONCodeConstructor")) =>
        /\ Ok(res) <=>
              \/ ArgCount = 1
              \/ ArgCount = 2 /\ TypeAt(Alone(Args[2]), RootPath) = Types["_object"]
        /\ Ok(res) =>
              /\ ~Logged(res, "visit", ArgPath(RootPath, 0))
              /\ res.out =
                    <<IF target = "python" THEN "Code("
                      ELSE IF ArgCount = 2 THEN "new CodeWithScope(" ELSE "new Code(">>
                    \o RawQuoted(Args[1])
                    \o (IF ArgCount = 2 THEN <<", ">> \o Alone(Args[2]).out ELSE <<>>)
                    \o <<")">>

\* C12 witness: a Code call with a scope has been translated, in Java.
C12_Witness ==
    /\ Done /\ target = "java" /\ IsCallOf("Code", "BSONCodeConstructor")
    /\ ArgCount = 2 /\ Ok(res) /\ res.out[1] = "new CodeWithScope("

IsInteger(node) == TypeAt(Alone(node), RootPath) = Types["_integer"]

\* C13: in the Python target a Timestamp call with other than 2 arguments
\* fails with an argument count mismatch; with 2 it fails with a type error
\* when either argument is not an _integer, the first tested before the second
\* is visited; otherwise it emits Timestamp(low, high), the rendered arguments
\* in order.
C13_TimestampTakesTwoIntegers ==
    (Done /\ target = "python" /\ Root.kind = "BSONTimestampConstructor") =>
        IF ArgCount # 2
        THEN res.err.class = "SemanticArgumentCountMismatchError"
        ELSE IF ~IsInteger(Args[1])
        THEN /\ res.err.class = "SemanticTypeError"
             /\ ~Logged(res, "visit", ArgPath(RootPath, 1))
        ELSE IF ~IsInteger(Args[2])
        THEN res.err.class = "SemanticTypeError"
        ELSE /\ Ok(res)
             /\ res.out = <<"Timestamp(">> \o Alone(Args[1]).out \o <<", ">>
                           \o Alone(Args[2]).out \o <<")">>

\* C13 witness: a Timestamp call whose first argument is not an integer has
\* been refused in Python.
C13_Witness ==
    /\ Done /\ target = "python" /\ Root.kind = "BSONTimestampConstructor"
    /\ ArgCount = 2 /\ ~IsInteger(Args[1]) /\ res.err.class = "SemanticTypeError"

\* C14: in both targets an ObjectId call takes 0 or 1 argument: without
\* arguments it emits the empty constructor and the sandbox is not invoked;
\* with 1 the sandbox is invoked exactly once and the hex string it yields is
\* embedded as a quoted literal; with 2 or more it fails with an argument count
\* mismatch.
C14_ObjectIdTakesAtMostOneArgument ==
    (Done /\ IsCallOf("ObjectId", "BSONObjectIdConstructor")) =>
        IF ArgCount = 0
        THEN /\ Ok(res) /\ res.alloc = 0
             /\ res.out = <<IF target = "python" THEN "ObjectId()" ELSE "new ObjectId()">>
        ELSE IF ArgCount = 1
        THEN /\ res.alloc = 1
             /\ Root.js.ok =>
                   /\ Ok(res)
                   /\ res.out = IF target = "python"
                                 THEN <<"ObjectId(", "'", Root.js.str, "'", ")">>
                                 ELSE <<"new ObjectId(", "\"", Root.js.str, "\"", ")">>
        ELSE /\ res.err.class \in {"SemanticArgumentCountMismatchError",
                                    "CodeGenerationError"}
             /\ res.alloc = 0

\* The target's table of binary subtypes.
SubtypeTable == IF target = "python" THEN subtypes ELSE JAVA_BINARY_SUBTYPES
SubtypeNames == {SubtypeTable[k] : k \in DOMAIN SubtypeTable}
Emitted == {res.out[k] : k \in 1..Len(res.out)}

\* C15: a translated Binary call with 2 arguments emits the target's table
\* entry for the subtype the sandbox computed, the entry exists for every
\* subtype the sandbox can return (no undefined lookup is emitted), and with 1
\* argument no subtype is emitted.
C15_BinarySubtypeIsInTheTable ==
    (Done /\ IsCallOf("Binary", "BSONBinaryConstructor") /\ Ok(res)
       /\ ArgCount \in {1, 2}) =>
        IF ArgCount = 2
        THEN /\ Root.js.sub_type \in DOMAIN SubtypeTable
             /\ Emitted \cap SubtypeNames = {SubtypeTable[Root.js.sub_type]}
             /\ UNDEFINED \notin Emitted
        ELSE Emitted \cap (SubtypeNames \cup {UNDEFINED}) = {}

\* The integer a sequence of octal digits denotes.
DigitValue == [d \in {"0", "1", "2", "3", "4", "5", "6", "7"} |->
                 CASE d = "0" -> 0 [] d = "1" -> 1 [] d = "2" -> 2 [] d = "3" -> 3
                   [] d = "4" -> 4 [] d = "5" -> 5 [] d = "6" -> 6 [] d = "7" -> 7]
RECURSIVE OctalValue(_)
OctalValue(digits) ==
    IF digits = <<>> THEN 0
    ELSE 8 * OctalValue(SubSeq(digits, 1, Len(digits) - 1)) + DigitValue[digits[Len(digits)]]

\* The digits of an octal literal: what follows its prefix 0, 0o or 0O.
DigitsOf(text) ==
    IF text[2] \in {"o", "O"} THEN SubSeq(text, 3, Len(text)) ELSE SubSeq(text, 2, Len(text))

IsOctal(node) == node.kind = "Literal" /\ node.name = "OctalIntegerLiteral"

\* C16: for every accepted octal literal the Python target emits 0o followed by
\* at least one octal digit, denoting the same integer as the literal.
C16_OctalIsCanonicalAndSameValue ==
    (Done /\ target = "python" /\ IsOctal(Root)) =>
        /\ Ok(res)
        /\ Len(res.out) >= 3
        /\ SubSeq(res.out, 1, 2) = <<"0", "o">>
        /\ \A k \in 3..Len(res.out) : res.out[k] \in DOMAIN DigitValue
        /\ OctalValue(SubSeq(res.out, 3, Len(res.out))) = OctalValue(DigitsOf(Root.text))

IsRegex(node) == node.kind = "Literal" /\ node.name = "RegularExpressionLiteral"

\* What the sandbox yields for the input's regular expression literal.
RegexJs == Root.kids[1].js

\* The translation of the input's regular expression with its flags left out.
WithoutFlags ==
    Alone(RegularExpressionLiteral(RegExpText(RegexJs.source, <<>>),
                                   JsRegExp(RegexJs.source, <<>>))).out

\* The images of the input's flags under the target's table, in the order the
\* target emits them: sorted ascending in Python, as they come in Java.
FlagImages ==
    IF target = "python"
    THEN SelectSeq(<<"a", "i", "m", "s">>,
                   LAMBDA c : \/ c = "a" /\ "u" \in Range(RegexJs.flags)
                              \/ c = "i" /\ "i" \in Range(RegexJs.flags)
                              \/ c = "m" /\ "m" \in Range(RegexJs.flags)
                              \/ c = "s" /\ "g" \in Range(RegexJs.flags))
    ELSE SelectSeq(RegexJs.flags, LAMBDA c : c \in {"i", "m", "u"})

\* C17: for a regex whose flags are a duplicate-free string over g, i, m, u, y
\* the emitted inline flag group holds exactly the images of the flags under
\* the target's table, and a regex whose flags are all dropped is emitted with
\* the text of the same regex without flags.
C17_FlagGroupHoldsTheImages ==
    (Done /\ IsRegex(Root) /\ RegexJs.ok) =>
        /\ Ok(res)
        /\ res.out =
              SubSeq(WithoutFlags, 1, Len(WithoutFlags) - 2)
              \o (IF FlagImages = <<>> THEN <<>> ELSE <<"(?">> \o FlagImages \o <<")">>)
              \o SubSeq(WithoutFlags, Len(WithoutFlags) - 1, Len(WithoutFlags))

\* A source with every backslash that no slash follows doubled.
RECURSIVE DoubledFrom(_, _)
DoubledFrom(source, i) ==
    IF i > Len(source) THEN <<>>
    ELSE (IF source[i] = "\\" /\ (i = Len(source) \/ source[i + 1] # "/")
          THEN <<"\\", "\\">> ELSE <<source[i]>>)
         \o DoubledFrom(source, i + 1)

\* C18: in the emitted regex every backslash of the source that no slash
\* follows is doubled, at all its occurrences, and a backslash that a slash
\* follows is left as it is.
C18_EveryBackslashIsDoubled ==
    (Done /\ IsRegex(Root) /\ RegexJs.ok) =>
        /\ Ok(res)
        /\ SubSeq(WithoutFlags, 3, Len(WithoutFlags) - 2) = DoubledFrom(RegexJs.source, 1)
        /\ SubSeq(res.out, 3, 2 + Len(DoubledFrom(RegexJs.source, 1)))
             = DoubledFrom(RegexJs.source, 1)

\* The type the input's first argument gets when it is visited.
FirstArgType == TypeAt(Alone(Args[1]), RootPath)

\* C19: in the Python target a Double call with exactly 1 argument emits
\* float(x) when the argument's type is _string or a numeric type (_integer,
\* _decimal, _hex, _octal) and raises a type error for any other type; with
\* another number of arguments it raises an argument count mismatch.
C19_DoubleTakesAStringOrANumber ==
    (Done /\ target = "python" /\ Root.kind = "BSONDoubleConstructor") =>
        IF ArgCount # 1
        THEN res.err.class = "SemanticArgumentCountMismatchError"
        ELSE IF FirstArgType \in {Types["_string"], Types["_integer"], Types["_decimal"],
                                  Types["_hex"], Types["_octal"]}
        THEN /\ Ok(res)
             /\ res.out = <<"float(">> \o Unquoted(Alone(Args[1]).out) \o <<")">>
        ELSE res.err.class = "SemanticTypeError"

RequiredNew == IF target = "java" THEN <<"new ">> ELSE <<>>

\* The rendered arguments of the input's call, each visited on its own.
RenderedArgs == [i \in 1..ArgCount |-> Alone(Args[i]).out]

\* The input is a call without an emitter hook that passed the callable and
\* argument checks.
GenericCallDone ==
    /\ Done /\ Root.kind = "FuncCall" /\ Ok(Callee) /\ CalleeType \in TypeNames
    /\ TypeTable[CalleeType].id \notin EmitHooks(target)
    /\ Ok(res)

\* How often the walk visited the node at a path.
VisitsAt(p) ==
    Cardinality({k \in 1..Len(res.log) : res.log[k] = [ev |-> "visit", at |-> p]})

\* The paths at or under the callee of the input's call.
InCallee(p) == Len(p) >= 2 /\ SubSeq(p, 1, 2) = RootPath \o <<0>>

\* C21: a generic call that passes the callable and argument checks starts
\* with the target's new-token exactly when the callee Type is a constructor,
\* visits the callee subtree exactly once, sets the node's type to the callee
\* Type's instance type, and emits lhs(arg1, arg2, ...) without an
\* argsTemplate and the argsTemplate rendering of (lhs, visited args) with one.
C21_GenericCallEmission ==
    GenericCallDone =>
        /\ VisitsAt(RootPath \o <<0>>) = 1
        /\ \A k \in 1..Len(res.log) :
              (res.log[k].ev = "visit" /\ InCallee(res.log[k].at))
                => VisitsAt(res.log[k].at) = 1
        /\ TypeAt(res, RootPath) = TypeTable[CalleeType].type
        /\ res.out =
              (IF TypeTable[CalleeType].callable = SYMBOL_TYPE.CONSTRUCTOR
               THEN RequiredNew ELSE <<>>)
              \o (IF TypeTable[CalleeType].argsTemplate
                  THEN ArgsTemplate(CalleeType, Join(<<Callee.out>> \o RenderedArgs, ", "))
                  ELSE Callee.out \o <<"(">> \o Join(RenderedArgs, ", ") \o <<")">>)

\* The end of the range visitChildren walks: the given one, else the last child.
LastIndex == IF options.end # -1 THEN options.end ELSE Len(options.children) - 1

\* The indexes the options select, in increasing order.
Selected ==
    SelectSeq([i \in 1..Len(options.children) |-> i - 1],
              LAMBDA i : /\ i >= options.start /\ i <= LastIndex
                         /\ (i - options.start) % options.step = 0
                         /\ i \notin options.ignore)

\* The paths the walk visited, in order.
VisitedPaths ==
    LET visits == SelectSeq(res.log, LAMBDA e : e.ev = "visit")
    IN  [k \in 1..Len(visits) |-> visits[k].at]

\* The texts of the selected children with the separator between them.
RECURSIVE Separated(_)
Separated(indexes) ==
    IF indexes = <<>> THEN <<>>
    ELSE tree.kids[Head(indexes) + 1].text
         \o (IF Len(indexes) = 1 \/ options.separator = "" THEN <<>>
             ELSE <<options.separator>>)
         \o Separated(Tail(indexes))

\* C22: visitChildren visits exactly the children at start, start + step, ...
\* up to end that are not ignored, each once and in increasing order, and
\* returns their texts joined by the separator, which stands only between two
\* emitted children and never after the last.
C22_SelectedChildrenAreJoined ==
    pc = "done" =>
        /\ Ok(res)
        /\ VisitedPaths = [k \in 1..Len(Selected) |-> <<Selected[k]>>]
        /\ res.out = Separated(Selected)

====
